---- MODULE Spec2Model ----
(***************************************************************************)
(* Model of the `dna` crate (src/dna/src/lib.rs): the 2-bit packed DNA     *)
(* container PackedDna, its two constructors (FromStr, FromIterator<Nuc>)  *)
(* and its two queries (get, get_counts).                                  *)
(*                                                                         *)
(* A Rust String / &str is a sequence of chars; a char is a one-token      *)
(* string ("A", "c", ...); the token "U+00E9" stands for the non-ASCII     *)
(* char e-acute, which takes two bytes in UTF-8.  A Vec<u8> is a sequence  *)
(* of numbers in 0..255.  The Nuc variants are the strings "Nuc::A" .. "Nuc::T".      *)
(***************************************************************************)
EXTENDS Integers, Sequences, FiniteSets, TLC

\* ---------------------------------------------------------------- bounds
\* longest text handed to PackedDna::from_str
MaxStrLen == 5
\* longest Nuc stream handed to PackedDna::from_iter
MaxIterLen == 7
\* get is queried with every idx in 0 .. length + IdxSlack, and with usize::MAX
IdxSlack == 4
\* width of usize in the model (the real width is 32 or 64; only the
\* wrap-around of 0 - 1 depends on it)
UsizeBits == 16

UsizeMax == 2^UsizeBits - 1

\* ------------------------------------------------------------- alphabets
Nuc == {"Nuc::A", "Nuc::C", "Nuc::G", "Nuc::T"}

\* chars the inputs are drawn from: both cases, an ASCII non-nucleotide in
\* lower case and a non-ASCII char
Chars == {"A", "C", "g", "t", "x", "U+00E9"}

\* ------------------------------------------------------- char / str helpers
\* char::to_ascii_uppercase: maps ASCII a..z to A..Z, anything else unchanged
char_to_ascii_uppercase(ch) ==
    CASE ch = "a" -> "A"
      [] ch = "c" -> "C"
      [] ch = "g" -> "G"
      [] ch = "t" -> "T"
      [] ch = "x" -> "X"
      [] OTHER -> ch

\* faulty variant: the input is not upper-cased
to_ascii_uppercase_identity(str) == str

\* str::to_ascii_uppercase
to_ascii_uppercase(str) == [k \in 1..Len(str) |-> char_to_ascii_uppercase(str[k])]

\* number of bytes of the UTF-8 encoding of a char
len_utf8(ch) == IF ch = "U+00E9" THEN 2 ELSE 1

RECURSIVE str_len(_)
\* str::len: the length in bytes
str_len(str) == IF str = <<>> THEN 0 ELSE len_utf8(Head(str)) + str_len(Tail(str))

\* ----------------------------------------------------------- PackedDna
NoDna == [none |-> TRUE]

\* locals of a constructor at function entry (lines 115-117 / 159-162)
Locals0 == [i |-> 0, vec |-> <<>>, curr |-> 0, extra_nuc |-> 0,
            a |-> 0, c |-> 0, g |-> 0, t |-> 0, failed |-> FALSE]

\* faulty variant: the shift is by one bit instead of two
shl2_or_shift1(curr, code) == ((curr * 2) % 256) + code

\* u8 `curr << 2 | code`: bits shifted out of the byte are lost
shl2_or(curr, code) == ((curr * 4) % 256) + code

\* faulty variant: the `i != 0` conjunct is missing, so an empty unit is pushed first
flush_no_nonzero_test(l, resetExtra) ==
    IF l.i % 4 = 0
    THEN [l EXCEPT !.vec = Append(l.vec, l.curr), !.curr = 0,
                   !.extra_nuc = IF resetExtra THEN 0 ELSE l.extra_nuc]
    ELSE l

\* the flush at the top of both loops: `if (i != 0) && (i % 4) == 0`
flush(l, resetExtra) ==
    IF l.i # 0 /\ l.i % 4 = 0
    THEN [l EXCEPT !.vec = Append(l.vec, l.curr), !.curr = 0,
                   !.extra_nuc = IF resetExtra THEN 0 ELSE l.extra_nuc]
    ELSE l

\* faulty variant: the 'G' arm forgets to count
from_str_body_g_uncounted(l0, ch) ==
    LET l == flush(l0, FALSE) IN
    CASE ch = "A" -> [l EXCEPT !.curr = shl2_or(l.curr, 0), !.a = l.a + 1, !.i = l.i + 1]
      [] ch = "C" -> [l EXCEPT !.curr = shl2_or(l.curr, 1), !.c = l.c + 1, !.i = l.i + 1]
      [] ch = "G" -> [l EXCEPT !.curr = shl2_or(l.curr, 2), !.i = l.i + 1]
      [] ch = "T" -> [l EXCEPT !.curr = shl2_or(l.curr, 3), !.t = l.t + 1, !.i = l.i + 1]
      [] OTHER -> [l EXCEPT !.failed = TRUE]

\* one iteration of the loop of from_str over the char `ch` at position l.i
from_str_body(l0, ch) ==
    LET l == flush(l0, FALSE) IN
    CASE ch = "A" -> [l EXCEPT !.curr = shl2_or(l.curr, 0), !.a = l.a + 1, !.i = l.i + 1]
      [] ch = "C" -> [l EXCEPT !.curr = shl2_or(l.curr, 1), !.c = l.c + 1, !.i = l.i + 1]
      [] ch = "G" -> [l EXCEPT !.curr = shl2_or(l.curr, 2), !.g = l.g + 1, !.i = l.i + 1]
      [] ch = "T" -> [l EXCEPT !.curr = shl2_or(l.curr, 3), !.t = l.t + 1, !.i = l.i + 1]
      [] OTHER -> [l EXCEPT !.failed = TRUE]

\* one iteration of the loop of from_iter over the item `nuc` at position l.i
from_iter_body(l0, nuc) ==
    LET l == flush(l0, TRUE) IN
    CASE nuc = "Nuc::A" -> [l EXCEPT !.curr = shl2_or(l.curr, 0), !.a = l.a + 1,
                                !.extra_nuc = l.extra_nuc + 1, !.i = l.i + 1]
      [] nuc = "Nuc::C" -> [l EXCEPT !.curr = shl2_or(l.curr, 1), !.c = l.c + 1,
                                !.extra_nuc = l.extra_nuc + 1, !.i = l.i + 1]
      [] nuc = "Nuc::G" -> [l EXCEPT !.curr = shl2_or(l.curr, 2), !.g = l.g + 1,
                                !.extra_nuc = l.extra_nuc + 1, !.i = l.i + 1]
      [] nuc = "Nuc::T" -> [l EXCEPT !.curr = shl2_or(l.curr, 3), !.t = l.t + 1,
                                !.extra_nuc = l.extra_nuc + 1, !.i = l.i + 1]

\* the struct literal both constructors return, after the final vec.push(curr)
build(l, extra) ==
    [packed_dna |-> Append(l.vec, l.curr), last_nuc_set_count |-> extra,
     a_count |-> l.a, c_count |-> l.c, g_count |-> l.g, t_count |-> l.t]

\* faulty variant: the final `extra_nuc %= 4` is missing
from_iter_finish_no_mod(l) == build(l, l.extra_nuc)

\* the end of from_iter, lines 189-198
from_iter_finish(l) == build(l, l.extra_nuc % 4)

\* faulty variant: the payload is cut after the offending char
parse_error_prefix(string_dna, i) == SubSeq(string_dna, 1, i + 1)

\* the error from_str returns at line 140, reached at char position i
parse_error(string_dna, i) == string_dna

RECURSIVE from_str_loop(_, _)
\* the loop of from_str run to its end or to its early return
from_str_loop(l, string_dna) ==
    IF l.failed \/ l.i = Len(string_dna) THEN l
    ELSE from_str_loop(from_str_body(l, string_dna[l.i + 1]), string_dna)

\* PackedDna::from_str as a function of its argument
from_str(str) ==
    LET sd == to_ascii_uppercase(str)
        l  == from_str_loop([Locals0 EXCEPT !.extra_nuc = str_len(sd) % 4], sd)
    IN IF l.failed THEN [kind |-> "Err", err |-> parse_error(sd, l.i)]
       ELSE [kind |-> "Ok", val |-> build(l, l.extra_nuc)]

\* ----------------------------------------------------------------- get
RECURSIVE format_b(_, _)
\* format!("{:b}") padded to `width` digits, most significant digit first
format_b(n, width) ==
    IF width = 0 THEN <<>>
    ELSE Append(format_b(n \div 2, width - 1), IF n % 2 = 1 THEN "1" ELSE "0")

format_08b(n) == format_b(n, 8)

rev(str) == [k \in 1..Len(str) |-> str[Len(str) + 1 - k]]

take(str, n) == SubSeq(str, 1, IF n < Len(str) THEN n ELSE Len(str))

Ok(x) == [kind |-> "Ok", val |-> x]
Err(e) == [kind |-> "Err", err |-> e]
Panic == [kind |-> "Panic"]

\* the message of the out-of-range error of get
IndexError(idx) == <<"Index ", idx, " is greater than the given DNA Length">>

\* faulty variant: the tail test is `>` instead of `>=`
get_tail_off_by_one(self, idx, overflow_checks) ==
    IF idx = 0 /\ overflow_checks THEN Panic
    ELSE
    LET im1       == IF idx = 0 THEN UsizeMax ELSE idx - 1
        vec_index == im1 \div 4
        bit_index == im1 % 4
        len       == Len(self.packed_dna)
    IN
    IF vec_index >= len
       \/ (vec_index >= len - 1 /\ bit_index > self.last_nuc_set_count)
    THEN Err(IndexError(idx))
    ELSE
    LET full == format_08b(self.packed_dna[vec_index + 1])
        binary_rep ==
            IF vec_index = len - 1 /\ self.last_nuc_set_count # 0
            THEN rev(take(rev(full), self.last_nuc_set_count * 2))
            ELSE full
        char_vec == binary_rep
    IN
    IF bit_index * 2 + 1 >= Len(char_vec) THEN Panic
    ELSE
    LET str_rep == <<char_vec[bit_index * 2 + 1], char_vec[bit_index * 2 + 2]>> IN
    CASE str_rep = <<"0", "0">> -> Ok("Nuc::A")
      [] str_rep = <<"0", "1">> -> Ok("Nuc::C")
      [] str_rep = <<"1", "0">> -> Ok("Nuc::G")
      [] str_rep = <<"1", "1">> -> Ok("Nuc::T")
      [] OTHER -> Err("Invalid String Encountered")

\* PackedDna::get.  overflow_checks is the build's setting: with it `0 - 1`
\* panics (debug profile), without it the subtraction wraps (release profile)
get(self, idx, overflow_checks) ==
    IF idx = 0 /\ overflow_checks THEN Panic
    ELSE
    LET im1       == IF idx = 0 THEN UsizeMax ELSE idx - 1
        vec_index == im1 \div 4
        bit_index == im1 % 4
        len       == Len(self.packed_dna)
    IN
    IF vec_index >= len
       \/ (vec_index >= len - 1 /\ bit_index >= self.last_nuc_set_count)
    THEN Err(IndexError(idx))
    ELSE
    LET full == format_08b(self.packed_dna[vec_index + 1])
        binary_rep ==
            IF vec_index = len - 1 /\ self.last_nuc_set_count # 0
            THEN rev(take(rev(full), self.last_nuc_set_count * 2))
            ELSE full
        char_vec == binary_rep
    IN
    IF bit_index * 2 + 1 >= Len(char_vec) THEN Panic
    ELSE
    LET str_rep == <<char_vec[bit_index * 2 + 1], char_vec[bit_index * 2 + 2]>> IN
    CASE str_rep = <<"0", "0">> -> Ok("Nuc::A")
      [] str_rep = <<"0", "1">> -> Ok("Nuc::C")
      [] str_rep = <<"1", "0">> -> Ok("Nuc::G")
      [] str_rep = <<"1", "1">> -> Ok("Nuc::T")
      [] OTHER -> Err("Invalid String Encountered")

\* PackedDna::get_counts
get_counts(self) ==
    << <<"A", self.a_count>>, <<"C", self.c_count>>,
       <<"G", self.g_count>>, <<"T", self.t_count>> >>

\* ------------------------------------------------------------- the machine
VARIABLES
    mode,        \* which constructor the caller uses: "str" or "iter"
    s,           \* the argument of from_str (a string)
    iter,        \* the argument of from_iter (a sequence of Nuc)
    pc,          \* the caller's position: "start", "loop" (inside the
                 \* constructor), "err" (constructor returned Err), "done"
                 \* (it returned the value), "queried" (the value was queried)
    string_dna,  \* from_str's local: the upper-cased input
    loc,         \* the other locals of the running constructor
    dna,         \* the constructed PackedDna, NoDna until one is returned
    error,       \* the payload of the ParseNucError returned, <<>> if none
    got          \* the last query made on dna and its result

vars == <<mode, s, iter, pc, string_dna, loc, dna, error, got>>

NoQuery == [op |-> "none"]

RECURSIVE SeqsUpTo(_, _)
SeqsUpTo(S, n) ==
    IF n = 0 THEN {<<>>}
    ELSE LET shorter == SeqsUpTo(S, n - 1) IN
         shorter \cup {Append(q, x) : q \in {r \in shorter : Len(r) = n - 1}, x \in S}

Init ==
    /\ \/ mode = "str" /\ s \in SeqsUpTo(Chars, MaxStrLen) /\ iter = <<>>
       \/ mode = "iter" /\ iter \in SeqsUpTo(Nuc, MaxIterLen) /\ s = <<>>
    /\ pc = "start"
    /\ string_dna = <<>>
    /\ loc = Locals0
    /\ dna = NoDna
    /\ error = <<>>
    /\ got = NoQuery

\* from_str, lines 113-117
FromStrBegin ==
    /\ mode = "str" /\ pc = "start"
    /\ string_dna' = to_ascii_uppercase(s)
    /\ loc' = [Locals0 EXCEPT !.extra_nuc = str_len(to_ascii_uppercase(s)) % 4]
    /\ pc' = "loop"
    /\ UNCHANGED <<mode, s, iter, dna, error, got>>

\* from_str, lines 118-142: one iteration, or the early return of the error
FromStrLoop ==
    /\ mode = "str" /\ pc = "loop"
    /\ loc.i < Len(string_dna)
    /\ LET l == from_str_body(loc, string_dna[loc.i + 1]) IN
       IF l.failed
       THEN /\ pc' = "err"
            /\ error' = parse_error(string_dna, l.i)
            /\ loc' = l
       ELSE /\ pc' = "loop"
            /\ error' = error
            /\ loc' = l
    /\ UNCHANGED <<mode, s, iter, string_dna, dna, got>>

\* from_str, lines 143-151
FromStrReturn ==
    /\ mode = "str" /\ pc = "loop"
    /\ loc.i = Len(string_dna)
    /\ dna' = build(loc, loc.extra_nuc)
    /\ pc' = "done"
    /\ UNCHANGED <<mode, s, iter, string_dna, loc, error, got>>

\* from_iter, lines 159-162
FromIterBegin ==
    /\ mode = "iter" /\ pc = "start"
    /\ loc' = Locals0
    /\ pc' = "loop"
    /\ UNCHANGED <<mode, s, iter, string_dna, dna, error, got>>

\* from_iter, lines 163-188: one iteration
FromIterLoop ==
    /\ mode = "iter" /\ pc = "loop"
    /\ loc.i < Len(iter)
    /\ loc' = from_iter_body(loc, iter[loc.i + 1])
    /\ UNCHANGED <<mode, s, iter, pc, string_dna, dna, error, got>>

\* from_iter, lines 189-198
FromIterReturn ==
    /\ mode = "iter" /\ pc = "loop"
    /\ loc.i = Len(iter)
    /\ loc' = [loc EXCEPT !.extra_nuc = loc.extra_nuc % 4]
    /\ dna' = from_iter_finish(loc)
    /\ pc' = "done"
    /\ UNCHANGED <<mode, s, iter, string_dna, error, got>>

\* number of symbols of the input handed to the constructor
InputLen == IF mode = "str" THEN Len(s) ELSE Len(iter)

\* the indices get is called with
Indices == (0 .. InputLen + IdxSlack) \cup {UsizeMax}

\* a call of get on the constructed value (the callers in the repository,
\* main and the tests, make one query per constructed value)
Get(idx, overflow_checks) ==
    /\ pc = "done"
    /\ got' = [op |-> "get", idx |-> idx, res |-> get(dna, idx, overflow_checks)]
    /\ pc' = "queried"
    /\ UNCHANGED <<mode, s, iter, string_dna, loc, dna, error>>

\* a call of get_counts on the constructed value
GetCounts ==
    /\ pc = "done"
    /\ got' = [op |-> "get_counts", res |-> get_counts(dna)]
    /\ pc' = "queried"
    /\ UNCHANGED <<mode, s, iter, string_dna, loc, dna, error>>

Next ==
    \/ FromStrBegin
    \/ FromStrLoop
    \/ FromStrReturn
    \/ FromIterBegin
    \/ FromIterLoop
    \/ FromIterReturn
    \/ \E idx \in Indices, overflow_checks \in BOOLEAN : Get(idx, overflow_checks)
    \/ GetCounts

Spec == Init /\ [][Next]_vars

\* ------------------------------------------------- vocabulary of the properties
\* the nucleotide a letter stands for, case-insensitively
NucOfLetter(ch) ==
    CASE ch \in {"A", "a"} -> "Nuc::A"
      [] ch \in {"C", "c"} -> "Nuc::C"
      [] ch \in {"G", "g"} -> "Nuc::G"
      [] ch \in {"T", "t"} -> "Nuc::T"
      [] OTHER -> "none"

IsNucLetter(ch) == NucOfLetter(ch) # "none"

\* the letter a Nuc value is written as
LetterOfNuc(nuc) ==
    CASE nuc = "Nuc::A" -> "A"
      [] nuc = "Nuc::C" -> "C"
      [] nuc = "Nuc::G" -> "G"
      [] nuc = "Nuc::T" -> "T"

\* the 2-bit code of a Nuc value: A=00, C=01, G=10, T=11
CodeOfNuc(nuc) ==
    CASE nuc = "Nuc::A" -> 0
      [] nuc = "Nuc::C" -> 1
      [] nuc = "Nuc::G" -> 2
      [] nuc = "Nuc::T" -> 3

\* the upper-case form of a char, as a table
UpperOf(ch) ==
    IF ch \in {"a", "c", "g", "t", "x"}
    THEN [a |-> "A", c |-> "C", g |-> "G", t |-> "T", x |-> "X"][ch]
    ELSE ch

\* the text of a Nuc stream
TextOf(q) == [k \in 1..Len(q) |-> LetterOfNuc(q[k])]

\* the symbols of the input handed to the constructor, as Nuc values
InputNucs ==
    IF mode = "str" THEN [k \in 1..Len(s) |-> NucOfLetter(s[k])] ELSE iter

\* number of occurrences of nuc in the input
Occurrences(nuc) == Cardinality({k \in 1..InputLen : InputNucs[k] = nuc})

\* a value was returned by the constructor
Built == pc \in {"done", "queried"}

\* field k (0 = the two most significant bits) of a byte
Field(byte, k) == (byte \div (4 ^ (3 - k))) % 4

\* position (1-based) of the first char of s that is no nucleotide letter,
\* Len(s) + 1 if there is none
FirstInvalid ==
    IF \E k \in 1..Len(s) : ~IsNucLetter(s[k])
    THEN CHOOSE k \in 1..Len(s) :
            ~IsNucLetter(s[k]) /\ \A j \in 1..(k - 1) : IsNucLetter(s[j])
    ELSE Len(s) + 1

\* ------------------------------------------------------------------ C1
\* C1 (as stated): for every text over {A,C,G,T,a,c,g,t} of length n >= 1,
\* get(i) is Ok with the i-th symbol of the upper-cased text, for every i in 1..n
C1_RoundTrip ==
    (pc = "queried" /\ mode = "str" /\ got.op = "get" /\ got.idx \in 1..Len(s))
        => got.res = Ok(NucOfLetter(s[got.idx]))

\* ------------------------------------------------------------------ C2
\* C2 (as stated): when the length n is a positive multiple of 4, tail_count
\* is 0 and get succeeds on each of the 4 indices n-3..n of the last unit
C2_FullLastUnitAddressable ==
    (pc = "queried" /\ got.op = "get" /\ InputLen > 0 /\ InputLen % 4 = 0
        /\ got.idx \in (InputLen - 3)..InputLen)
        => (dna.last_nuc_set_count = 0 /\ got.res.kind = "Ok")

\* ------------------------------------------------------------------ C3
\* C3 (as stated): get returns Ok or Err for every constructed value and
\* every index, index 0 included; it never panics
C3_GetNeverPanics ==
    (pc = "queried" /\ got.op = "get") => got.res.kind \in {"Ok", "Err"}

\* ------------------------------------------------------------------ C4
\* C4: the running counters sum to the number of symbols consumed after every
\* step of a constructor, and get_counts returns the pairs A, C, G, T in that
\* order, each with the number of occurrences in the input, summing to n
C4_CountInvariant ==
    /\ loc.a + loc.c + loc.g + loc.t = loc.i
    /\ (pc = "queried" /\ got.op = "get_counts") =>
          /\ got.res = << <<"A", Occurrences("Nuc::A")>>, <<"C", Occurrences("Nuc::C")>>,
                          <<"G", Occurrences("Nuc::G")>>, <<"T", Occurrences("Nuc::T")>> >>
          /\ got.res[1][2] + got.res[2][2] + got.res[3][2] + got.res[4][2] = InputLen

C4_Witness ==
    /\ pc = "queried" /\ got.op = "get_counts" /\ mode = "str"
    /\ Len(s) = 5 /\ got.res[3][2] = 2 /\ s[1] = "g" /\ s[5] = "g"

\* ------------------------------------------------------------------ C5
\* C5: from_iter(q) and from_str(text(q)) give the same storage bytes, the
\* same tail_count (= length mod 4) and the same four counts
C5_StreamTextEquivalence ==
    (mode = "iter" /\ Built) =>
        /\ from_str(TextOf(iter)) = [kind |-> "Ok", val |-> dna]
        /\ dna.last_nuc_set_count = Len(iter) % 4

C5_Witness ==
    /\ mode = "iter" /\ pc = "done" /\ Len(iter) = 4
    /\ dna.packed_dna = <<27>> /\ dna.last_nuc_set_count = 0

\* ------------------------------------------------------------------ C6
\* C6: for a sequence of length n >= 0 and an index i > n, get(i) returns the
\* out-of-range error naming i, never a symbol
C6_OutOfRangeRejected ==
    (pc = "queried" /\ got.op = "get" /\ got.idx > InputLen)
        => got.res = Err(IndexError(got.idx))

C6_Witness ==
    /\ pc = "queried" /\ got.op = "get" /\ InputLen = 6 /\ got.idx = 7
    /\ got.res.kind = "Err"

\* ------------------------------------------------------------------ C7
\* C7: from_str returns Err, and no PackedDna, exactly when the text holds a
\* char outside {A,C,G,T} case-insensitively, wherever it stands
C7_Rejection ==
    (mode = "str" /\ pc \in {"err", "done", "queried"}) =>
        /\ (pc = "err") <=> (\E k \in 1..Len(s) : ~IsNucLetter(s[k]))
        /\ (pc = "err") => dna = NoDna
        /\ (pc # "err") => dna # NoDna

C7_Witness ==
    /\ mode = "str" /\ pc = "err" /\ Len(s) = 5 /\ s[5] = "U+00E9"
    /\ \A k \in 1..4 : IsNucLetter(s[k])

\* ------------------------------------------------------------------ C8
\* C8: a constructed value has ceil(n/4) storage units for n >= 1 and one
\* unit for n = 0, and tail_count = n mod 4
C8_StorageShape ==
    Built =>
        /\ Len(dna.packed_dna) = IF InputLen = 0 THEN 1 ELSE (InputLen + 3) \div 4
        /\ dna.last_nuc_set_count = InputLen % 4

C8_Witness ==
    /\ mode = "str" /\ pc = "done" /\ Len(s) = 4
    /\ Len(dna.packed_dna) = 1 /\ dna.last_nuc_set_count = 0

\* ------------------------------------------------------------------ C9
\* C9 (as stated): in every unit, a partial last unit included, the symbol at
\* index i is the field (i - 1) % 4 counted from the most significant end
C9_MsbFirstEverywhere ==
    Built =>
        \A i \in 1..InputLen :
            Field(dna.packed_dna[((i - 1) \div 4) + 1], (i - 1) % 4) = CodeOfNuc(InputNucs[i])

\* C9 (amended): in a unit holding 4 symbols the symbol at index i is the
\* field (i - 1) % 4 counted from the most significant end; in a partial last
\* unit holding t = n mod 4 symbols the symbols are right-aligned, the symbol
\* at index i being the field (4 - t) + (i - 1) % 4 and the upper 4 - t
\* fields being zero
C9_BitOrder ==
    Built =>
        LET n == InputLen
            t == n % 4
        IN /\ \A i \in 1..n :
                LET unit == dna.packed_dna[((i - 1) \div 4) + 1]
                    k    == (i - 1) % 4
                IN IF i > n - t
                   THEN Field(unit, (4 - t) + k) = CodeOfNuc(InputNucs[i])
                   ELSE Field(unit, k) = CodeOfNuc(InputNucs[i])
           /\ t # 0 =>
                \A k \in 0..(3 - t) : Field(dna.packed_dna[Len(dna.packed_dna)], k) = 0

C9_Witness ==
    /\ mode = "iter" /\ pc = "done" /\ Len(iter) = 6
    /\ iter[5] = "Nuc::C" /\ iter[6] = "Nuc::T" /\ dna.packed_dna[2] = 7

\* ------------------------------------------------------------------ C10
\* C10 (as stated): construction stops at the first invalid char and the
\* error carries the upper-cased prefix of the input ending at that char
C10_PayloadIsPrefix ==
    (mode = "str" /\ pc = "err") =>
        error = [k \in 1..FirstInvalid |-> UpperOf(s[k])]

\* C10 (amended): construction stops at the first invalid char and the error
\* carries the whole ASCII-upper-cased input, the chars after the first
\* invalid one included
C10_PayloadIsWholeInput ==
    (mode = "str" /\ pc = "err") =>
        /\ loc.i + 1 = FirstInvalid
        /\ FirstInvalid <= Len(s)
        /\ error = [k \in 1..Len(s) |-> UpperOf(s[k])]

C10_Witness ==
    /\ mode = "str" /\ pc = "err" /\ Len(s) = 5
    /\ s[3] = "x" /\ s[4] = "g" /\ IsNucLetter(s[1]) /\ IsNucLetter(s[2])
    /\ error[3] = "X" /\ error[4] = "G" /\ Len(error) = 5

====
